---- MODULE Spec2Model ----
(***************************************************************************)
(* Model of gopenapi's generation core: the spec normalizer                *)
(* (parser.ProcessSpec), the string helpers it uses, and the orchestrator  *)
(* (cmd/gopenapi main + generator.GenerateCode) acting on an output        *)
(* directory that the user may edit between runs.                          *)
(*                                                                         *)
(* Go strings are modelled as sequences of one-character strings, so that  *)
(* Trim, Split, Title and the case conversions are computed character by   *)
(* character as the code computes them.                                    *)
(***************************************************************************)
EXTENDS Integers, Sequences, FiniteSets, TLC

VARIABLES
    nspec,      \* SpecNorm: the freshly deserialized specification (Paths map)
    nout,       \* SpecNorm: the specification after the latest ProcessSpec
    nfirst,     \* SpecNorm: the specification after the first ProcessSpec
    npc         \* SpecNorm: "raw" before the pass, "processed" after it,
                \* "reprocessed" after a second pass

VARIABLES
    uin,        \* SpecUtils: the argument of the utils function
    uout,       \* SpecUtils: what the function returned
    upc         \* SpecUtils: "input" before the call, then the function called

VARIABLES
    pc,         \* position of the current run (main, then GenerateCode)
    fs,         \* the output directory: file name -> content
    dirs,       \* the directories that exist under the output root
    specFile,   \* --spec of the current run
    pkgFlag,    \* --package of the current run
    decoder,    \* history: the deserializer ParseSpecFile called ("none", "yaml", "json")
    spec,       \* the specification held by main (NoSpec before Load)
    cfg,        \* generator.Config handed to GenerateCode (NoCfg before)
    err,        \* what the run reported: "none" (running), "nil", "error"
    fs0,        \* history: the output directory when the current run started
    trace,      \* history: the steps the current run executed, in order
    written,    \* history: the files the current run wrote, in order, with what it wrote
    prev,       \* history: the successful run that directly preceded this one
    runs,       \* number of runs started
    edits       \* number of user edits made

nvars == <<nspec, nout, nfirst, npc>>
uvars == <<uin, uout, upc>>
gvars == <<pc, fs, dirs, specFile, decoder, pkgFlag, spec, cfg, err, fs0, trace, written, prev, runs, edits>>
vars == <<nspec, nout, nfirst, npc, uin, uout, upc, pc, fs, dirs, specFile, decoder,
          pkgFlag, spec, cfg, err, fs0, trace,
          written, prev, runs, edits>>

----------------------------------------------------------------------------
(* Bounds *)

MaxPathLen == 4
MaxRuns == 2
MaxEdits == 1
MaxNesting == 3
MaxGinPathLen == 5
MaxNameLen == 5
MaxProperties == 2
MaxComponents == 2

----------------------------------------------------------------------------
(* Characters and Go's strings package *)

LowerLetters == <<"a","b","c","d","e","f","g","h","i","j","k","l","m",
                  "n","o","p","q","r","s","t","u","v","w","x","y","z">>
UpperLetters == <<"A","B","C","D","E","F","G","H","I","J","K","L","M",
                  "N","O","P","Q","R","S","T","U","V","W","X","Y","Z">>
Digits == {"0","1","2","3","4","5","6","7","8","9"}

IsLower(c) == \E i \in 1..26 : LowerLetters[i] = c
IsUpper(c) == \E i \in 1..26 : UpperLetters[i] = c

ToUpperCh(c) ==
    IF IsLower(c) THEN UpperLetters[CHOOSE i \in 1..26 : LowerLetters[i] = c]
    ELSE c

ToLowerCh(c) ==
    IF IsUpper(c) THEN LowerLetters[CHOOSE i \in 1..26 : UpperLetters[i] = c]
    ELSE c

\* strings.ToUpper / strings.ToLower
StringsToUpper(s) == [i \in 1..Len(s) |-> ToUpperCh(s[i])]
StringsToLower(s) == [i \in 1..Len(s) |-> ToLowerCh(s[i])]

\* strings.ReplaceAll(s, old, new) for one-character old and new
ReplaceAllCh(s, old, new) == [i \in 1..Len(s) |-> IF s[i] = old THEN new ELSE s[i]]

\* strings.Trim(s, cutset) for a one-character cutset
RECURSIVE TrimLeftCh(_, _)
TrimLeftCh(s, c) ==
    IF Len(s) > 0 /\ s[1] = c THEN TrimLeftCh(Tail(s), c) ELSE s

RECURSIVE TrimRightCh(_, _)
TrimRightCh(s, c) ==
    IF Len(s) > 0 /\ s[Len(s)] = c THEN TrimRightCh(SubSeq(s, 1, Len(s) - 1), c) ELSE s

StringsTrim(s, c) == TrimRightCh(TrimLeftCh(s, c), c)

\* strings.Split(s, sep) for a one-character sep: always at least one part,
\* Split("", sep) is the one-element list [""]
RECURSIVE StringsSplit(_, _)
StringsSplit(s, c) ==
    IF \E i \in 1..Len(s) : s[i] = c
    THEN LET i == CHOOSE k \in 1..Len(s) : s[k] = c /\ \A j \in 1..(k - 1) : s[j] # c
         IN  <<SubSeq(s, 1, i - 1)>> \o StringsSplit(SubSeq(s, i + 1, Len(s)), c)
    ELSE <<s>>

\* strings.Join(parts, "")
RECURSIVE StringsJoin(_)
StringsJoin(parts) ==
    IF parts = <<>> THEN <<>> ELSE Head(parts) \o StringsJoin(Tail(parts))

\* strings.isSeparator on ASCII: letters, digits and underscore are not
\* separators, every other ASCII character is
IsSeparator(c) == ~(IsLower(c) \/ IsUpper(c) \/ c \in Digits \/ c = "_")

\* strings.Title: upper-cases every letter that begins a word (the first
\* character, and every character that follows a separator); other
\* characters are copied unchanged
StringsTitle(s) ==
    [i \in 1..Len(s) |->
        IF i = 1 \/ IsSeparator(s[i - 1]) THEN ToUpperCh(s[i]) ELSE s[i]]

----------------------------------------------------------------------------
(* package parser *)

\* parser.ToCamelCase
ParserToCamelCase(s) ==
    LET parts == StringsSplit(ReplaceAllCh(s, "-", "_"), "_")
    IN  StringsJoin([i \in 1..Len(parts) |-> StringsTitle(parts[i])])

\* Mutant: the identifier is built from the first segment, not the last
SynthOperationID_FirstSegment(path, method) ==
    LET pathParts == StringsSplit(StringsTrim(path, "/"), "/")
    IN  StringsToLower(method) \o ParserToCamelCase(pathParts[1])

\* Mutant: an empty trimmed path is given the segment name "root"
SynthOperationID_RootName(path, method) ==
    LET pathParts == StringsSplit(StringsTrim(path, "/"), "/")
        name == IF StringsTrim(path, "/") # <<>> THEN pathParts[Len(pathParts)]
                ELSE <<"r","o","o","t">>
    IN  StringsToLower(method) \o ParserToCamelCase(name)

\* the operationId ProcessSpec generates for an operation that declared none
SynthOperationID(path, method) ==
    LET pathParts == StringsSplit(StringsTrim(path, "/"), "/")
        name == IF Len(pathParts) > 0 THEN pathParts[Len(pathParts)] ELSE <<"r","o","o","t">>
    IN  StringsToLower(method) \o ParserToCamelCase(name)

\* the tag list ProcessSpec gives an operation that declared no tags
DefaultTags == << <<"d","e","f","a","u","l","t">> >>

\* Mutant: the tag list is replaced by the default also when tags were declared
ProcessOperation_DefaultTagAlways(path, method, op) ==
    [op EXCEPT !.Method = StringsToUpper(method),
               !.Tags = DefaultTags,
               !.OperationID = IF op.OperationID = <<>>
                               THEN SynthOperationID(path, method)
                               ELSE op.OperationID]

\* Mutant: the method token is the map key as written
ProcessOperation_MethodKept(path, method, op) ==
    [op EXCEPT !.Method = method,
               !.Tags = IF Len(op.Tags) = 0 THEN DefaultTags ELSE op.Tags,
               !.OperationID = IF op.OperationID = <<>>
                               THEN SynthOperationID(path, method)
                               ELSE op.OperationID]

\* Mutant: the operationId is generated also when one was declared
ProcessOperation_IdRegenerated(path, method, op) ==
    [op EXCEPT !.Method = StringsToUpper(method),
               !.Tags = IF Len(op.Tags) = 0 THEN DefaultTags ELSE op.Tags,
               !.OperationID = SynthOperationID(path, method)]

\* Mutant: the default tag is added without the "no tags" guard
ProcessOperation_TagAppended(path, method, op) ==
    [op EXCEPT !.Method = StringsToUpper(method),
               !.Tags = op.Tags \o DefaultTags,
               !.OperationID = IF op.OperationID = <<>>
                               THEN SynthOperationID(path, method)
                               ELSE op.OperationID]

\* the body of ProcessSpec's inner loop: one operation of one path
ProcessOperation(path, method, op) ==
    [op EXCEPT !.Method = StringsToUpper(method),
               !.Tags = IF Len(op.Tags) = 0 THEN DefaultTags ELSE op.Tags,
               !.OperationID = IF op.OperationID = <<>>
                               THEN SynthOperationID(path, method)
                               ELSE op.OperationID]

\* parser.ProcessSpec on the Paths map (path -> method -> Operation)
ProcessSpec(paths) ==
    [p \in DOMAIN paths |->
        [m \in DOMAIN paths[p] |-> ProcessOperation(p, m, paths[p][m])]]

----------------------------------------------------------------------------
(* package utils *)

IsWordChar(c) == IsLower(c) \/ IsUpper(c) \/ c \in Digits

\* cases.Title(language.English).String on the modelled characters (letters,
\* '{', '}', '/', ' '): the first letter of every word is upper-cased and
\* every other letter of the word is lower-cased; a word ends at a character
\* that is neither a letter nor a digit
CasesTitle(s) ==
    [i \in 1..Len(s) |->
        IF i = 1 \/ ~IsWordChar(s[i - 1]) THEN ToUpperCh(s[i]) ELSE ToLowerCh(s[i])]

\* Mutant: '-' is not a separator
UtilsToCamelCase_UnderscoreOnly(s) ==
    LET parts == StringsSplit(s, "_")
    IN  StringsJoin([i \in 1..Len(parts) |->
            IF Len(parts[i]) > 0 THEN CasesTitle(parts[i]) ELSE parts[i]])

\* utils.ToCamelCase
UtilsToCamelCase(s) ==
    LET parts == StringsSplit(ReplaceAllCh(s, "-", "_"), "_")
    IN  StringsJoin([i \in 1..Len(parts) |->
            IF Len(parts[i]) > 0 THEN CasesTitle(parts[i]) ELSE parts[i]])

\* Mutant: the closing brace of a placeholder is kept
ConvertPathToGin_KeepClosing(path) == ReplaceAllCh(path, "{", ":")

\* utils.ConvertPathToGin: every '{' becomes ':', every '}' is removed
ConvertPathToGin(path) ==
    SelectSeq(ReplaceAllCh(path, "{", ":"), LAMBDA c : c # "}")

\* models.Schema: Items is NoItems for a nil pointer; Properties is the
\* sequence of the map's (name, schema) entries, empty for a nil map
NoItems == [nil |-> TRUE]

Schema(type, format, ref, items) ==
    [Type |-> type, Format |-> format, Ref |-> ref, Items |-> items, Properties |-> <<>>]

Property(name, schema) == [Name |-> name, Schema |-> schema]

WithProperties(schema, props) == [schema EXCEPT !.Properties = props]

\* Mutant: the whole reference is returned
RefName_Whole(ref) == ref

\* "parts := strings.Split(schema.Ref, "/"); return parts[len(parts)-1]"
RefName(ref) ==
    LET parts == StringsSplit(ref, "/") IN parts[Len(parts)]

\* case "integer"
IntegerType(format) ==
    CASE format = "int32" -> <<"int32">>
      [] format = "int64" -> <<"int64">>
      [] OTHER -> <<"int">>

\* Mutant: a number without format "double" is a float32
NumberType_Float32Default(format) ==
    CASE format = "double" -> <<"float64">>
      [] OTHER -> <<"float32">>

\* case "number"
NumberType(format) ==
    CASE format = "float" -> <<"float32">>
      [] format = "double" -> <<"float64">>
      [] OTHER -> <<"float64">>

\* case "string"
StringType(format) ==
    CASE format = "byte" -> <<"[]byte">>
      [] format = "binary" -> <<"[]byte">>
      [] format \in {"date", "date-time"} -> <<"time.Time">>
      [] OTHER -> <<"string">>

\* Mutant: an array of arrays gets one wrapper only
ArrayOf_SingleWrapper(inner) ==
    IF inner # <<>> /\ inner[1] = "[]" THEN inner ELSE <<"[]">> \o inner

\* "[]" + GetGoType(*schema.Items)
ArrayOf(inner) == <<"[]">> \o inner

\* utils.GetGoType. The result is the type expression as a sequence of
\* pieces whose concatenation is the Go string: a keyword of the switch is
\* one piece, a reference name is one piece per character.
RECURSIVE GetGoType(_)
GetGoType(schema) ==
    IF schema.Ref # <<>>
    THEN RefName(schema.Ref)
    ELSE CASE schema.Type = "integer" -> IntegerType(schema.Format)
           [] schema.Type = "number" -> NumberType(schema.Format)
           [] schema.Type = "boolean" -> <<"bool">>
           [] schema.Type = "string" -> StringType(schema.Format)
           [] schema.Type = "array" ->
                 IF schema.Items # NoItems
                 THEN ArrayOf(GetGoType(schema.Items))
                 ELSE <<"[]interface{}">>
           [] schema.Type = "object" -> <<"map[string]interface{}">>
           [] OTHER -> <<"interface{}">>

----------------------------------------------------------------------------
(* Inputs of the normalizer *)

PathAlphabet == {"/", "a", "_", "{"}

RECURSIVE StringsUpTo(_, _)
StringsUpTo(alphabet, n) ==
    IF n = 0 THEN {<<>>}
    ELSE LET shorter == StringsUpTo(alphabet, n - 1)
         IN  shorter \cup {Append(s, c) : s \in {t \in shorter : Len(t) = n - 1}, c \in alphabet}

PathUsers == <<"/","u","s","e","r","s">>
PathRoot == <<"/">>
PathComplex == <<"/","c","o","m","p","l","e","x","/","p","a","t","h","/",
                 "w","i","t","h","/","s","e","g","m","e","n","t","s">>

ExamplePaths == {PathUsers, PathRoot, PathComplex}

PathInputs == StringsUpTo(PathAlphabet, MaxPathLen) \cup ExamplePaths

MethodGet == <<"g","e","t">>
MethodPost == <<"p","o","s","t">>
MethodDelete == <<"d","e","l","e","t","e">>
MethodKeys == {MethodGet, MethodPost, MethodDelete, <<"G","E","T">>}

DeclaredIDs == {<<>>, <<"l","i","s","t","_","u","s","e","r","s">>}
TagUsers == <<"u","s","e","r","s">>
TagAdmin == <<"a","d","m","i","n">>
DeclaredTags == {<<>>, <<TagUsers>>, <<TagUsers, TagAdmin>>}

\* models.Operation as yaml.Unmarshal leaves it: Method is never read from
\* the document
Operation(id, summary, tags, params) ==
    [Method |-> <<>>, OperationID |-> id, Summary |-> summary, Tags |-> tags,
     Parameters |-> params]

RawOperation(id, tags) == Operation(id, "", tags, <<>>)

RawOperations == {RawOperation(id, tags) : id \in DeclaredIDs, tags \in DeclaredTags}

\* one path with one operation
SinglePathSpecs ==
    {[p \in {path} |-> [m \in {method} |-> op]] :
        path \in PathInputs, method \in MethodKeys, op \in RawOperations}

\* one path with two operations: one declares an operationId and two tags,
\* the other an operationId and no tags
SpecWithTags ==
    [p \in {PathUsers} |->
        [m \in {MethodGet, MethodPost} |->
            IF m = MethodGet
            THEN RawOperation(<<"l","i","s","t","_","u","s","e","r","s">>, <<TagUsers, TagAdmin>>)
            ELSE RawOperation(<<"c","r","e","a","t","e","_","u","s","e","r">>, <<>>)]]

\* two paths, three operations, none declares an operationId
SpecTwoPaths ==
    [p \in {PathUsers, PathRoot} |->
        IF p = PathUsers
        THEN [m \in {MethodGet, MethodDelete} |->
                 IF m = MethodGet THEN RawOperation(<<>>, <<>>)
                 ELSE RawOperation(<<>>, <<TagUsers>>)]
        ELSE [m \in {MethodGet} |-> RawOperation(<<>>, <<>>)]]

\* a specification with no paths
SpecEmptyPaths == <<>>

PathAdminUsers == <<"/","a","d","m","i","n","/","u","s","e","r","s">>

\* two paths that end in the same segment, one operation each, no operationId
SpecSameLastSegment ==
    [p \in {PathUsers, PathAdminUsers} |-> [m \in {MethodGet} |-> RawOperation(<<>>, <<>>)]]

MultiOperationSpecs == {SpecWithTags, SpecTwoPaths, SpecEmptyPaths, SpecSameLastSegment}

NormalizerInputs == SinglePathSpecs \cup MultiOperationSpecs

----------------------------------------------------------------------------
(* The output directory *)

GoMod == "go.mod"
MainGo == "main.go"
ServerGo == "server/server.go"
APIGo == "api/api.go"
ModelsGo == "models/models.go"
ReadmeMd == "README.md"
ImplGo == "api/implementation.go"
\* a file of the user's own in the api directory
ExistingGo == "api/existing.go"

Artifacts == {GoMod, MainGo, ServerGo, APIGo, ModelsGo, ReadmeMd, ImplGo}
Files == Artifacts \cup {ExistingGo}

DirOf(f) ==
    CASE f \in {APIGo, ImplGo, ExistingGo} -> "api"
      [] f = ModelsGo -> "models"
      [] f = ServerGo -> "server"
      [] OTHER -> "base"

\* createDirectories' dirs slice, in its order
LayoutDirs == <<"base", "api", "models", "server">>

Absent == [kind |-> "absent"]

\* what the user writes: opaque text; the user's go.mod names a module
UserModule == "github.com/u/app"
UserFile(f) == IF f = GoMod THEN [kind |-> "user", module |-> UserModule]
               ELSE [kind |-> "user"]

\* a file that os.Create truncated and whose write then failed part-way
Partial == [kind |-> "partial"]

----------------------------------------------------------------------------
(* Specification documents the runs are given *)

StringSchema == Schema("string", "", <<>>, NoItems)

IdParam == [Name |-> <<"i","d">>, In |-> "path", Schema |-> StringSchema]

NoTags == <<>>

\* one operation, no operationId
DocOne ==
    [Title |-> "One", Version |-> "1.0.0",
     Paths |-> [p \in {PathUsers} |->
                   [m \in {MethodGet} |-> Operation(<<>>, "List users", NoTags, <<>>)]],
     Schemas |-> <<>>]

PathUserId == <<"/","u","s","e","r","s","/","{","i","d","}">>

\* two paths with one operation each, and one component schema
DocTwo ==
    [Title |-> "Two", Version |-> "2.0.0",
     Paths |-> [p \in {PathUsers, PathUserId} |->
                   IF p = PathUsers
                   THEN [m \in {MethodGet} |->
                            Operation(<<"l","i","s","t","_","u","s","e","r","s">>, "", NoTags, <<>>)]
                   ELSE [m \in {MethodGet} |->
                            Operation(<<"g","e","t","_","u","s","e","r">>, "Get user", NoTags,
                                      <<IdParam>>)]],
     Schemas |-> << [Name |-> "User", Properties |-> << [Name |-> "id", Schema |-> StringSchema] >>] >>]

\* the files --spec may name, and what each holds
SpecFiles == {"one.yaml", "two.json", "broken.yaml", "BROKEN.YML", "spec.txt"}

ExtYaml == <<".","y","a","m","l">>
ExtYml == <<".","y","m","l">>
ExtJson == <<".","j","s","o","n">>

\* filepath.Ext(filePath)
FileExt(file) ==
    CASE file = "one.yaml" -> ExtYaml
      [] file = "broken.yaml" -> ExtYaml
      [] file = "BROKEN.YML" -> <<".","Y","M","L">>
      [] file = "two.json" -> ExtJson
      [] OTHER -> <<".","t","x","t">>

\* Mutant: a file of any other extension is handed to the YAML deserializer
Deserializer_YamlFallback(ext) ==
    IF ext = ExtJson THEN "json" ELSE "yaml"

\* the extension switch of ParseSpecFile: which deserializer the (lower-cased)
\* extension selects, "none" for the unsupported-format error
Deserializer(ext) ==
    IF ext = ExtYaml \/ ext = ExtYml THEN "yaml"
    ELSE IF ext = ExtJson THEN "json"
    ELSE "none"

\* a specification file as Generator.LoadSpec sees it: whether it can be
\* read, its extension, whether it is well formed, whether its top level is
\* a mapping, and which of the sections LoadSpec looks at it has
SpecDocument(readable, ext, wellFormed, top, gopenapi, openapi, models, components, schemas) ==
    [Readable |-> readable, Ext |-> ext, WellFormed |-> wellFormed, Top |-> top,
     Gopenapi |-> gopenapi, Openapi |-> openapi, Models |-> models,
     Components |-> components, Schemas |-> schemas]

\* Mutant: the openapi version field is looked at before the gopenapi one
ValidateSections_OpenapiFirst(doc) ==
    IF doc.Openapi
    THEN IF doc.Components # "mapping" THEN "missing 'components' section"
         ELSE IF doc.Schemas # "mapping" THEN "missing 'schemas' in components"
         ELSE "nil"
    ELSE IF doc.Gopenapi
    THEN IF ~doc.Models THEN "missing 'models' section" ELSE "nil"
    ELSE "neither gopenapi nor openapi version field found"

\* LoadSpec after the document is deserialized: "if isGopenapi ... else if
\* isOpenapi ... else"
ValidateSections(doc) ==
    IF doc.Gopenapi
    THEN IF ~doc.Models THEN "missing 'models' section" ELSE "nil"
    ELSE IF doc.Openapi
    THEN IF doc.Components # "mapping" THEN "missing 'components' section"
         ELSE IF doc.Schemas # "mapping" THEN "missing 'schemas' in components"
         ELSE "nil"
    ELSE "neither gopenapi nor openapi version field found"

\* Generator.LoadSpec: the extension is switched on as written in the path;
\* a document whose top level is not a mapping cannot be unmarshalled into
\* the map
LoadSpec(doc) ==
    IF ~doc.Readable THEN "failed to read spec file"
    ELSE IF doc.Ext \notin {ExtJson, ExtYaml, ExtYml} THEN "unsupported spec file format"
    ELSE IF ~doc.WellFormed \/ doc.Top # "mapping" THEN "failed to parse spec"
    ELSE ValidateSections(doc)

\* the deserializer's result: a document, or Malformed for a syntax error
Malformed == [malformed |-> TRUE]

Unmarshal(file) ==
    CASE file = "one.yaml" -> DocOne
      [] file = "two.json" -> DocTwo
      [] OTHER -> Malformed

NoSpec == [none |-> TRUE]
NoCfg == [none |-> TRUE]
NoRun == [none |-> TRUE]

PackageFlags == {"", "petstore"}

\* filepath.Base of the output directory, and of a module path
OutDirName == "out"
ModuleBase(m) == IF m = UserModule THEN "app" ELSE m

----------------------------------------------------------------------------
(* Rendering: the data each generator hands to its template *)

RECURSIVE OrdersOf(_)
OrdersOf(S) ==
    IF S = {} THEN {<<>>}
    ELSE UNION {{<<x>> \o rest : rest \in OrdersOf(S \ {x})} : x \in S}

RECURSIVE Flatten(_, _)
Flatten(pathOrder, methodOrder) ==
    IF pathOrder = <<>> THEN <<>>
    ELSE LET p == Head(pathOrder)
         IN  [i \in 1..Len(methodOrder[p]) |-> <<p, methodOrder[p][i]>>]
             \o Flatten(Tail(pathOrder), methodOrder)

\* The orders in which "for path, ops := range spec.Paths { for method, op :=
\* range ops" may visit the operations: Go leaves the iteration order of a
\* map unspecified, so every order of the paths and, within a path, every
\* order of its methods is possible.
RangeOrders(paths) ==
    LET allMethodOrders == UNION {OrdersOf(DOMAIN paths[p]) : p \in DOMAIN paths}
    IN  {Flatten(po, mo) :
            po \in OrdersOf(DOMAIN paths),
            mo \in {f \in [DOMAIN paths -> allMethodOrders] :
                       \A p \in DOMAIN paths : f[p] \in OrdersOf(DOMAIN paths[p])}}

PathParams(op) == SelectSeq(op.Parameters, LAMBDA param : param.In = "path")

\* GenerateAPIFile: one APIMethod of the methods slice
APIMethod(path, method, op) ==
    [Name |-> StringsToUpper(method) \o <<" ">> \o path,
     HandlerName |-> UtilsToCamelCase(op.OperationID),
     Summary |-> op.Summary,
     Parameters |-> [i \in 1..Len(PathParams(op)) |->
                        <<PathParams(op)[i].Name, GetGoType(PathParams(op)[i].Schema)>>]]

RenderAPI(s, ord) ==
    [kind |-> "api",
     Methods |-> [i \in 1..Len(ord) |-> APIMethod(ord[i][1], ord[i][2], s.Paths[ord[i][1]][ord[i][2]])]]

\* GenerateServerFile: one Route of the routes slice
Route(path, method, op) ==
    [Method |-> CasesTitle(StringsToUpper(method)),
     Path |-> ConvertPathToGin(path),
     HandlerName |-> UtilsToCamelCase(op.OperationID),
     PathParams |-> [i \in 1..Len(PathParams(op)) |->
                        <<PathParams(op)[i].Name, GetGoType(PathParams(op)[i].Schema)>>]]

RenderServer(s, moduleName, ord) ==
    [kind |-> "server", ModuleName |-> moduleName,
     Routes |-> [i \in 1..Len(ord) |-> Route(ord[i][1], ord[i][2], s.Paths[ord[i][1]][ord[i][2]])]]

\* the router wiring: each path parameter is read with c.Param, a string,
\* and passed to the handler method in the order of route.PathParams
RouterCall(route) ==
    [i \in 1..Len(route.PathParams) |-> <<route.PathParams[i][1], <<"string">>>>]

\* GenerateModels: the template ranges over the Schemas map, which
\* text/template visits in sorted key order
RenderModels(s) == [kind |-> "models", Schemas |-> s.Schemas]

\* hasTimeFields(schema)
RECURSIVE HasTimeFields(_)
HasTimeFields(schema) ==
    \/ schema.Type = "string" /\ schema.Format \in {"date", "date-time"}
    \/ \E i \in DOMAIN schema.Properties : HasTimeFields(schema.Properties[i].Schema)
    \/ schema.Items # NoItems /\ HasTimeFields(schema.Items)

\* GenerateModels: "needsTimeImport" over spec.Components.Schemas
NeedsTimeImport(schemas) ==
    \E i \in DOMAIN schemas : HasTimeFields(schemas[i].Schema)

\* GenerateModels: one struct of the models template, a field per top-level
\* property
ModelStruct(name, schema) ==
    [Name |-> name,
     Fields |-> [j \in DOMAIN schema.Properties |->
                    <<UtilsToCamelCase(schema.Properties[j].Name),
                      GetGoType(schema.Properties[j].Schema)>>]]

\* GenerateModels: the import block and the structs of models.go
ModelsFile(schemas) ==
    [Imports |-> IF NeedsTimeImport(schemas) THEN {"time"} ELSE {},
     Structs |-> [i \in DOMAIN schemas |-> ModelStruct(schemas[i].Name, schemas[i].Schema)]]

RenderReadme(s, packageName) ==
    [kind |-> "readme", Title |-> s.Title, Version |-> s.Version, PackageName |-> packageName]

RenderMain(s, moduleName, ord) ==
    [kind |-> "main", ModuleName |-> moduleName,
     Endpoints |-> [i \in 1..Len(ord) |->
                       [Method |-> ord[i][2], Path |-> ord[i][1],
                        Description |->
                            IF s.Paths[ord[i][1]][ord[i][2]].Summary = ""
                            THEN "No description available"
                            ELSE s.Paths[ord[i][1]][ord[i][2]].Summary]]]

\* GenerateImplementationTemplate: every path parameter is declared "string"
StubParams(op) ==
    [j \in 1..Len(PathParams(op)) |-> <<PathParams(op)[j].Name, <<"string">>>>]

RenderImplementation(s, ord) ==
    [kind |-> "implementation",
     Operations |-> [i \in 1..Len(ord) |->
                        LET op == s.Paths[ord[i][1]][ord[i][2]]
                        IN  [HandlerName |-> UtilsToCamelCase(op.OperationID),
                             Comment |-> StringsToUpper(ord[i][2]) \o <<" ">> \o ord[i][1],
                             Params |-> StubParams(op)]]]

RenderGoMod(moduleName) == [kind |-> "gomod", module |-> moduleName]

----------------------------------------------------------------------------
(* One run: main (ParseSpecFile, configuration) and GenerateCode *)

Step(name, fault) == [step |-> name, fault |-> fault]

\* Mutant: GenerateCode writes go.mod before it creates the directories
StepAfter_GoModFirst(step) ==
    CASE step = "load" -> "normalize"
      [] step = "normalize" -> "configure"
      [] step = "configure" -> "gomod"
      [] step = "gomod" -> "layout"
      [] step = "layout" -> "main"
      [] step = "main" -> "server"
      [] step = "server" -> "api"
      [] step = "api" -> "models"
      [] step = "models" -> "readme"
      [] step = "readme" -> "impl"
      [] OTHER -> "done"

\* Mutant: GenerateCode does not call GenerateReadme
StepAfter_NoReadme(step) ==
    CASE step = "load" -> "normalize"
      [] step = "normalize" -> "configure"
      [] step = "configure" -> "layout"
      [] step = "layout" -> "gomod"
      [] step = "gomod" -> "main"
      [] step = "main" -> "server"
      [] step = "server" -> "api"
      [] step = "api" -> "models"
      [] step = "models" -> "impl"
      [] OTHER -> "done"

\* The order of the statements of main and GenerateCode: the step that
\* follows a step that returned no error
StepAfter(step) ==
    CASE step = "load" -> "normalize"
      [] step = "normalize" -> "configure"
      [] step = "configure" -> "layout"
      [] step = "layout" -> "gomod"
      [] step = "gomod" -> "main"
      [] step = "main" -> "server"
      [] step = "server" -> "api"
      [] step = "api" -> "models"
      [] step = "models" -> "readme"
      [] step = "readme" -> "impl"
      [] OTHER -> "done"

\* a step finished without an error to return; fault records an error it
\* met and did not return
Advance(step, fault) ==
    /\ pc' = StepAfter(step)
    /\ err' = IF StepAfter(step) = "done" THEN "nil" ELSE err
    /\ trace' = Append(trace, Step(step, fault))

\* Mutant: the error is dropped and GenerateCode goes on
ReturnErr_Swallow(step, fault) ==
    /\ pc' = StepAfter(step)
    /\ err' = IF StepAfter(step) = "done" THEN "nil" ELSE err
    /\ trace' = Append(trace, Step(step, fault))

\* "if err != nil { return err }" in GenerateCode
ReturnErr(step, fault) ==
    /\ pc' = "failed"
    /\ err' = "error"
    /\ trace' = Append(trace, Step(step, fault))

\* Mutant: main goes on after ParseSpecFile returned an error
Fatal_Ignored(step, fault) ==
    /\ pc' = StepAfter(step)
    /\ err' = err
    /\ trace' = Append(trace, Step(step, fault))

\* log.Fatalf in main before GenerateCode is called
Fatal(step, fault) ==
    /\ pc' = "failed"
    /\ err' = err
    /\ trace' = Append(trace, Step(step, fault))

Idle == pc \in {"idle", "done", "failed"}

\* the gopenapi command is started
StartRun ==
    /\ Idle
    /\ runs < MaxRuns
    /\ \E file \in SpecFiles, flag \in PackageFlags :
          /\ specFile' = file
          /\ pkgFlag' = flag
    /\ pc' = "load"
    /\ decoder' = "none"
    /\ spec' = NoSpec
    /\ cfg' = NoCfg
    /\ err' = "none"
    /\ fs0' = fs
    /\ trace' = <<>>
    /\ written' = <<>>
    /\ prev' = IF pc = "done" /\ err = "nil"
               THEN [specFile |-> specFile, pkgFlag |-> pkgFlag]
               ELSE NoRun
    /\ runs' = runs + 1
    /\ UNCHANGED <<fs, dirs, edits>>
    /\ UNCHANGED <<nvars, uvars>>

\* ParseSpecFile up to the deserializer: ReadFile (which may fail for any
\* file), the switch on the lower-cased extension, yaml.Unmarshal or
\* json.Unmarshal
Load ==
    /\ pc = "load"
    /\ LET ext == StringsToLower(FileExt(specFile))
       IN  \/ /\ Fatal("load", "read")
              /\ UNCHANGED <<spec, decoder>>
           \/ /\ Deserializer(ext) = "none"
              /\ Fatal("load", "format")
              /\ UNCHANGED <<spec, decoder>>
           \/ /\ Deserializer(ext) # "none"
              /\ decoder' = Deserializer(ext)
              /\ Unmarshal(specFile) = Malformed
              /\ Fatal("load", "parse")
              /\ UNCHANGED spec
           \/ /\ Deserializer(ext) # "none"
              /\ decoder' = Deserializer(ext)
              /\ Unmarshal(specFile) # Malformed
              /\ spec' = Unmarshal(specFile)
              /\ Advance("load", "none")
    /\ UNCHANGED <<fs, dirs, specFile, pkgFlag, cfg, fs0, written, prev, runs, edits>>
    /\ UNCHANGED <<nvars, uvars>>

\* ParseSpecFile's ProcessSpec(&spec)
Normalize ==
    /\ pc = "normalize"
    /\ spec' = [spec EXCEPT !.Paths = ProcessSpec(spec.Paths)]
    /\ Advance("normalize", "none")
    /\ UNCHANGED <<fs, dirs, specFile, decoder, pkgFlag, cfg, fs0, written, prev, runs, edits>>
    /\ UNCHANGED <<nvars, uvars>>

\* the module line main finds in an existing go.mod ("" when there is none)
ModuleLine(content) ==
    IF content.kind \in {"user", "gomod"} THEN content.module ELSE ""

\* main: package and module name from --package, go.mod and the directory
Configure ==
    /\ pc = "configure"
    /\ LET detected == IF pkgFlag = "" THEN ModuleLine(fs[GoMod]) ELSE ""
           pkg == IF pkgFlag # "" THEN pkgFlag
                  ELSE IF detected # "" THEN ModuleBase(detected)
                  ELSE OutDirName
           moduleName == IF detected # "" THEN detected ELSE pkg
       IN  cfg' = [PackageName |-> pkg, ModuleName |-> moduleName]
    /\ pc' = StepAfter("configure")
    /\ UNCHANGED <<fs, dirs, specFile, decoder, pkgFlag, spec, err, fs0, trace, written, prev, runs, edits>>
    /\ UNCHANGED <<nvars, uvars>>

\* GenerateCode's ModuleName (the package name when it is empty)
ModuleNameOf(c) == IF c.ModuleName = "" THEN c.PackageName ELSE c.ModuleName

\* createDirectories: MkdirAll over the dirs slice, returning at the first
\* error; k is the number of directories made before it
CreateDirectories ==
    /\ pc = "layout"
    /\ \E k \in 0..Len(LayoutDirs) :
          /\ dirs' = dirs \cup {LayoutDirs[i] : i \in 1..k}
          /\ IF k = Len(LayoutDirs)
             THEN Advance("layout", "none")
             ELSE ReturnErr("layout", "mkdir")
    /\ UNCHANGED <<fs, specFile, decoder, pkgFlag, spec, cfg, fs0, written, prev, runs, edits>>
    /\ UNCHANGED <<nvars, uvars>>

\* os.Create(path) followed by the write of content (WriteString or
\* tmpl.Execute): Create fails and leaves the file alone, or truncates it
\* and the write fails part-way, or both succeed
CreateAndWrite(step, f, content) ==
    \/ /\ ReturnErr(step, "create")
       /\ UNCHANGED <<fs, written>>
    \/ /\ DirOf(f) \in dirs
       /\ fs' = [fs EXCEPT ![f] = Partial]
       /\ written' = Append(written, [file |-> f, content |-> Partial])
       /\ ReturnErr(step, "write")
    \/ /\ DirOf(f) \in dirs
       /\ fs' = [fs EXCEPT ![f] = content]
       /\ written' = Append(written, [file |-> f, content |-> content])
       /\ Advance(step, "none")

\* os.Stat(path): nil for a file that is there, an IsNotExist error for one
\* that is not, or another error (permission, symlink loop) for one that is
\* there but cannot be examined
StatResults(f) == IF fs[f] = Absent THEN {"notexist"} ELSE {"ok", "error"}

\* GenerateGoMod
GenerateGoMod ==
    /\ pc = "gomod"
    /\ CreateAndWrite("gomod", GoMod, RenderGoMod(ModuleNameOf(cfg)))
    /\ UNCHANGED <<dirs, specFile, decoder, pkgFlag, spec, cfg, fs0, prev, runs, edits>>
    /\ UNCHANGED <<nvars, uvars>>

\* "if _, err := os.Stat(mainPath); os.IsNotExist(err)": main.go is
\* generated only for this result of Stat
MainIsGenerated(stat) == stat = "notexist"

\* GenerateCode's main.go block and GenerateMainFile
GenerateMainFile ==
    /\ pc = "main"
    /\ \E stat \in StatResults(MainGo) :
          IF MainIsGenerated(stat)
          THEN \E ord \in RangeOrders(spec.Paths) :
                  CreateAndWrite("main", MainGo, RenderMain(spec, ModuleNameOf(cfg), ord))
          ELSE /\ Advance("main", IF stat = "error" THEN "stat" ELSE "none")
               /\ UNCHANGED <<fs, written>>
    /\ UNCHANGED <<dirs, specFile, decoder, pkgFlag, spec, cfg, fs0, prev, runs, edits>>
    /\ UNCHANGED <<nvars, uvars>>

\* GenerateServerFile
GenerateServerFile ==
    /\ pc = "server"
    /\ \E ord \in RangeOrders(spec.Paths) :
          CreateAndWrite("server", ServerGo, RenderServer(spec, ModuleNameOf(cfg), ord))
    /\ UNCHANGED <<dirs, specFile, decoder, pkgFlag, spec, cfg, fs0, prev, runs, edits>>
    /\ UNCHANGED <<nvars, uvars>>

\* Mutant: api.go is written only when it is not there yet
GenerateAPIFile_IfAbsent ==
    /\ pc = "api"
    /\ IF fs[APIGo] = Absent
       THEN \E ord \in RangeOrders(spec.Paths) :
               CreateAndWrite("api", APIGo, RenderAPI(spec, ord))
       ELSE /\ Advance("api", "none")
            /\ UNCHANGED <<fs, written>>
    /\ UNCHANGED <<dirs, specFile, decoder, pkgFlag, spec, cfg, fs0, prev, runs, edits>>
    /\ UNCHANGED <<nvars, uvars>>

\* GenerateAPIFile
GenerateAPIFile ==
    /\ pc = "api"
    /\ \E ord \in RangeOrders(spec.Paths) :
          CreateAndWrite("api", APIGo, RenderAPI(spec, ord))
    /\ UNCHANGED <<dirs, specFile, decoder, pkgFlag, spec, cfg, fs0, prev, runs, edits>>
    /\ UNCHANGED <<nvars, uvars>>

\* GenerateModels
GenerateModels ==
    /\ pc = "models"
    /\ CreateAndWrite("models", ModelsGo, RenderModels(spec))
    /\ UNCHANGED <<dirs, specFile, decoder, pkgFlag, spec, cfg, fs0, prev, runs, edits>>
    /\ UNCHANGED <<nvars, uvars>>

\* GenerateReadme
GenerateReadme ==
    /\ pc = "readme"
    /\ CreateAndWrite("readme", ReadmeMd, RenderReadme(spec, cfg.PackageName))
    /\ UNCHANGED <<dirs, specFile, decoder, pkgFlag, spec, cfg, fs0, prev, runs, edits>>
    /\ UNCHANGED <<nvars, uvars>>

\* Mutant: the stub is generated whatever Stat reports
ImplIsSkipped_Never(stat) == FALSE

\* "if _, err := os.Stat(implPath); !os.IsNotExist(err) { return nil }":
\* the results of Stat for which the stub is left alone
ImplIsSkipped(stat) == stat # "notexist"

\* GenerateImplementationTemplate
GenerateImplementationTemplate ==
    /\ pc = "impl"
    /\ \E stat \in StatResults(ImplGo) :
          IF ImplIsSkipped(stat)
          THEN /\ Advance("impl", IF stat = "error" THEN "stat" ELSE "none")
               /\ UNCHANGED <<fs, written>>
          ELSE \E ord \in RangeOrders(spec.Paths) :
                  CreateAndWrite("impl", ImplGo, RenderImplementation(spec, ord))
    /\ UNCHANGED <<dirs, specFile, decoder, pkgFlag, spec, cfg, fs0, prev, runs, edits>>
    /\ UNCHANGED <<nvars, uvars>>

\* Between runs the user writes or deletes a file of the output directory
UserEdit ==
    /\ Idle
    /\ edits < MaxEdits
    /\ \E f \in Files : \E c \in {UserFile(f), Absent} :
          /\ c # fs[f]
          /\ fs' = [fs EXCEPT ![f] = c]
          /\ dirs' = IF c = Absent THEN dirs ELSE dirs \cup {"base", DirOf(f)}
    /\ pc' = "idle"
    /\ err' = "none"
    /\ fs0' = fs'
    /\ trace' = <<>>
    /\ written' = <<>>
    /\ prev' = NoRun
    /\ edits' = edits + 1
    /\ specFile' = "one.yaml"
    /\ pkgFlag' = ""
    /\ decoder' = "none"
    /\ spec' = NoSpec
    /\ cfg' = NoCfg
    /\ UNCHANGED runs
    /\ UNCHANGED <<nvars, uvars>>

Init ==
    /\ pc = "idle"
    /\ fs = [f \in Files |-> Absent]
    /\ dirs = {}
    /\ specFile = "one.yaml"
    /\ pkgFlag = ""
    /\ decoder = "none"
    /\ spec = NoSpec
    /\ cfg = NoCfg
    /\ err = "none"
    /\ fs0 = fs
    /\ trace = <<>>
    /\ written = <<>>
    /\ prev = NoRun
    /\ runs = 0
    /\ edits = 0
    /\ nspec = <<>>
    /\ nout = <<>>
    /\ nfirst = <<>>
    /\ npc = "unused"
    /\ uin = <<>>
    /\ uout = <<>>
    /\ upc = "unused"

Next ==
    \/ StartRun
    \/ Load
    \/ Normalize
    \/ Configure
    \/ CreateDirectories
    \/ GenerateGoMod
    \/ GenerateMainFile
    \/ GenerateServerFile
    \/ GenerateAPIFile
    \/ GenerateModels
    \/ GenerateReadme
    \/ GenerateImplementationTemplate
    \/ UserEdit

Spec == Init /\ [][Next]_vars

----------------------------------------------------------------------------
(* Regeneration policy (Spec) *)

\* the artifacts GenerateCode rewrites on every run
Regenerated == {ServerGo, APIGo, ModelsGo, ReadmeMd}

FilesWritten == {written[j].file : j \in 1..Len(written)}

\* C1: a run that finds main.go or the handler-implementation stub already
\* present leaves its content unchanged; a run writes such a file only if it
\* found it absent. (fs0 is the directory as the run found it; a user edit
\* makes the edited directory the one the next run finds.)
C1_CreateOncePreserved ==
    \A f \in {MainGo, ImplGo} :
        /\ fs0[f] # Absent => fs[f] = fs0[f]
        /\ f \in FilesWritten => fs0[f] = Absent

C1_Witness ==
    /\ pc = "done" /\ err = "nil"
    /\ fs0[MainGo] = UserFile(MainGo) /\ fs[MainGo] = UserFile(MainGo)
    /\ fs0[ImplGo] = Absent /\ fs[ImplGo].kind = "implementation"

\* C2 (as claimed): a go.mod that exists when a run starts has the same
\* content after the run has succeeded, whatever module name the run is
\* configured with.
C2_GoModCreateOnce ==
    (pc = "done" /\ err = "nil" /\ fs0[GoMod] # Absent) => fs[GoMod] = fs0[GoMod]

\* C3: after every successful run each always-regenerated artifact holds a
\* rendering of the specification (and configuration) of that run, whatever
\* the file held before.
C3_RegeneratedFromRunSpec ==
    (pc = "done" /\ err = "nil") =>
        /\ spec.Title = Unmarshal(specFile).Title
        /\ \E ord \in RangeOrders(spec.Paths) : fs[APIGo] = RenderAPI(spec, ord)
        /\ \E ord \in RangeOrders(spec.Paths) :
               fs[ServerGo] = RenderServer(spec, ModuleNameOf(cfg), ord)
        /\ fs[ModelsGo] = RenderModels(spec)
        /\ fs[ReadmeMd] = RenderReadme(spec, cfg.PackageName)

C3_Witness ==
    /\ pc = "done" /\ err = "nil"
    /\ fs0[APIGo] = UserFile(APIGo)
    /\ fs[APIGo].kind = "api"

\* C4 (as claimed): a second run directly after a successful run, with the
\* same specification file and flags and no edit in between, leaves every
\* always-regenerated artifact with the content the first run gave it.
C4_SecondRunByteIdentical ==
    (pc = "done" /\ err = "nil" /\ prev # NoRun
        /\ prev.specFile = specFile /\ prev.pkgFlag = pkgFlag) =>
        \A f \in Regenerated : fs[f] = fs0[f]

\* the stage of section 4.6 a step belongs to: Load, Normalize, Layout,
\* ModuleDescriptor, EmitArtifacts
StageOf(step) ==
    CASE step = "load" -> 1
      [] step = "normalize" -> 2
      [] step = "layout" -> 3
      [] step = "gomod" -> 4
      [] OTHER -> 5

RunningSteps == {"load", "normalize", "layout", "gomod", "main", "server", "api",
                 "models", "readme", "impl"}

\* C5: the stages of a run execute in the order Load, Normalize, Layout,
\* ModuleDescriptor, EmitArtifacts; a stage starts only after every earlier
\* stage completed without error; no step executes twice; no file is written
\* before the directory layout has been created.
C5_StagesInOrder ==
    /\ \A i \in 1..Len(trace) :
          /\ i = 1 => StageOf(trace[i].step) = 1
          /\ i > 1 =>
                /\ trace[i - 1].fault \in {"none", "stat"}
                /\ \/ StageOf(trace[i].step) = StageOf(trace[i - 1].step) + 1
                   \/ StageOf(trace[i].step) = 5 /\ StageOf(trace[i - 1].step) = 5
          /\ \A j \in 1..Len(trace) : trace[j].step = trace[i].step => j = i
    /\ pc \in RunningSteps =>
          \A stage \in 1..(StageOf(pc) - 1) :
              \E i \in 1..Len(trace) :
                  StageOf(trace[i].step) = stage /\ trace[i].fault = "none"
    /\ written # <<>> =>
          /\ \E i \in 1..Len(trace) : trace[i] = Step("layout", "none")
          /\ \A k \in 1..Len(LayoutDirs) : LayoutDirs[k] \in dirs

C5_Witness ==
    /\ pc = "done" /\ err = "nil"
    /\ Len(trace) = 10
    /\ Len(written) = 7

\* C6 (as claimed): whichever filesystem operation of a run fails (directory
\* creation, an existence check, a create or a write), the failing step is
\* the last one executed and GenerateCode returns an error.
C6_EveryFaultIsReturned ==
    \A i \in 1..Len(trace) :
        trace[i].fault \in {"mkdir", "stat", "create", "write"} =>
            i = Len(trace) /\ pc = "failed" /\ err = "error"

\* C6 (amended): when directory creation or a file create or write fails,
\* the failing step is the last one executed, GenerateCode returns an error,
\* and every file the run wrote is still as the run wrote it.
C6_WriteFaultIsReturned ==
    /\ \A i \in 1..Len(trace) :
          trace[i].fault \in {"mkdir", "create", "write"} =>
              i = Len(trace) /\ pc = "failed" /\ err = "error"
    /\ \A j \in 1..Len(written) : fs[written[j].file] = written[j].content

C6_Witness ==
    /\ pc = "failed" /\ err = "error"
    /\ trace[Len(trace)] = Step("models", "create")
    /\ Len(written) >= 3
    /\ fs[APIGo].kind = "api"

C8_StubOnlyInEmptyDirectory ==
    (trace # <<>> /\ trace[Len(trace)] = Step("impl", "none")) =>
        LET created == ImplGo \in FilesWritten
            emptyBefore == /\ \A f \in {APIGo, ExistingGo} : fs[f] = Absent
                           /\ (created \/ fs[ImplGo] = Absent)
        IN  created <=> emptyBefore

----------------------------------------------------------------------------
(* Loading (Spec) *)

\* the extensions ParseSpecFile accepts
SupportedExts == {ExtYaml, ExtYml, ExtJson}

\* the load step of the current run has been executed and the file was read
LoadExecuted == trace # <<>> /\ trace[1].step = "load" /\ trace[1].fault # "read"

\* C15 (as claimed): loading a file whose extension is none of .yaml, .yml,
\* .json ends with the unsupported-format error, yields no specification,
\* and calls neither a deserializer nor the normalizer.
C15_OtherExtensionRejected ==
    (LoadExecuted /\ FileExt(specFile) \notin SupportedExts) =>
        /\ trace = <<Step("load", "format")>>
        /\ pc = "failed"
        /\ spec = NoSpec
        /\ decoder = "none"

\* C15 (amended): loading a readable file whose lower-cased extension is
\* none of .yaml, .yml, .json ends with the unsupported-format error, yields
\* no specification, and calls neither a deserializer nor the normalizer; a
\* file whose lower-cased extension is one of them is handed to the
\* deserializer of that format.
C15_UnsupportedFormatRejected ==
    LoadExecuted =>
        LET ext == StringsToLower(FileExt(specFile))
        IN  /\ ext \notin SupportedExts =>
                  /\ trace = <<Step("load", "format")>>
                  /\ pc = "failed"
                  /\ spec = NoSpec
                  /\ decoder = "none"
            /\ ext \in {ExtYaml, ExtYml} => decoder = "yaml"
            /\ ext = ExtJson => decoder = "json"

C15_Witness ==
    /\ specFile = "spec.txt"
    /\ trace = <<Step("load", "format")>>
    /\ pc = "failed"
    /\ spec = NoSpec
    /\ decoder = "none"

\* C25: when the specification file cannot be read or its deserializer
\* reports a syntax error, the run ends at the load step with no
\* specification, the normalizer and the generation stages are not run, and
\* no file of the output directory is created or modified.
C25_LoadFailureWritesNothing ==
    (trace # <<>> /\ trace[1].fault \in {"read", "parse"}) =>
        /\ Len(trace) = 1
        /\ trace[1].step = "load"
        /\ pc = "failed"
        /\ spec = NoSpec
        /\ written = <<>>
        /\ fs = fs0

C25_Witness ==
    /\ specFile = "broken.yaml"
    /\ trace = <<Step("load", "parse")>>
    /\ pc = "failed"
    /\ spec = NoSpec
    /\ fs0[APIGo] # Absent
    /\ fs = fs0

----------------------------------------------------------------------------
(* SpecNorm: the normalizer applied to a freshly deserialized specification *)

InitNorm ==
    /\ nspec \in NormalizerInputs
    /\ nout = nspec
    /\ nfirst = nspec
    /\ npc = "raw"
    /\ uin = <<>>
    /\ uout = <<>>
    /\ upc = "unused"
    /\ pc = "idle"
    /\ fs = [f \in Files |-> Absent]
    /\ dirs = {}
    /\ specFile = "one.yaml"
    /\ pkgFlag = ""
    /\ decoder = "none"
    /\ spec = NoSpec
    /\ cfg = NoCfg
    /\ err = "none"
    /\ fs0 = fs
    /\ trace = <<>>
    /\ written = <<>>
    /\ prev = NoRun
    /\ runs = 0
    /\ edits = 0

\* ParseSpecFile's call of ProcessSpec(&spec)
NormProcessSpec ==
    /\ npc = "raw"
    /\ nout' = ProcessSpec(nspec)
    /\ nfirst' = nout'
    /\ npc' = "processed"
    /\ UNCHANGED nspec
    /\ UNCHANGED <<gvars, uvars>>

\* ProcessSpec called again on the specification it has already processed
NormProcessSpecAgain ==
    /\ npc = "processed"
    /\ nout' = ProcessSpec(nout)
    /\ npc' = "reprocessed"
    /\ UNCHANGED <<nspec, nfirst>>
    /\ UNCHANGED <<gvars, uvars>>

NextNorm ==
    \/ NormProcessSpec
    \/ NormProcessSpecAgain

SpecNorm == InitNorm /\ [][NextNorm]_vars

----------------------------------------------------------------------------
(* Operation-identifier synthesis (SpecNorm) *)

\* The segments of a path that are not empty, in order
NonEmptySegments(path) == SelectSeq(StringsSplit(path, "/"), LAMBDA seg : seg # <<>>)

HasSegment(path) == NonEmptySegments(path) # <<>>

LastNonEmptySegment(path) == NonEmptySegments(path)[Len(NonEmptySegments(path))]

\* The (path, method) pairs of the input that declared no operationId
Undeclared(p, m) == p \in DOMAIN nspec /\ m \in DOMAIN nspec[p] /\ nspec[p][m].OperationID = <<>>

\* C9: an operation with no declared operationId on a path with at least one
\* non-empty segment gets lowercase(method) followed by the normalized
\* identifier of the last non-empty segment: GET /users gives getUsers, POST
\* /users gives postUsers, DELETE /complex/path/with/segments gives
\* deleteSegments.
C9_SynthesizedFromLastSegment ==
    npc = "processed" =>
        \A p \in DOMAIN nspec : \A m \in DOMAIN nspec[p] :
            (Undeclared(p, m) /\ HasSegment(p)) =>
                /\ nout[p][m].OperationID =
                       StringsToLower(m) \o ParserToCamelCase(LastNonEmptySegment(p))
                /\ (p = PathUsers /\ m = MethodGet) =>
                       nout[p][m].OperationID = <<"g","e","t","U","s","e","r","s">>
                /\ (p = PathUsers /\ m = MethodPost) =>
                       nout[p][m].OperationID = <<"p","o","s","t","U","s","e","r","s">>
                /\ (p = PathComplex /\ m = MethodDelete) =>
                       nout[p][m].OperationID =
                           <<"d","e","l","e","t","e","S","e","g","m","e","n","t","s">>

C9_Witness ==
    /\ npc = "processed"
    /\ Undeclared(PathComplex, MethodDelete)
    /\ nout[PathComplex][MethodDelete].OperationID =
           <<"d","e","l","e","t","e","S","e","g","m","e","n","t","s">>

\* C10: an operation on the bare path "/" with no declared operationId gets
\* the lower-cased method name alone: GET / gives "get".
C10_RootGivesMethodOnly ==
    npc = "processed" =>
        \A m \in MethodKeys :
            Undeclared(PathRoot, m) => nout[PathRoot][m].OperationID = StringsToLower(m)

C10_Witness ==
    /\ npc = "processed"
    /\ Undeclared(PathRoot, MethodGet)
    /\ nout[PathRoot][MethodGet].OperationID = <<"g","e","t">>

\* C11 (as claimed): an operation with no declared operationId on a path
\* that has no segment once its leading and trailing '/' are trimmed gets
\* lowercase(method) followed by the normalized identifier of "root".
C11_RootSubstituted ==
    npc = "processed" =>
        \A p \in DOMAIN nspec : \A m \in DOMAIN nspec[p] :
            (Undeclared(p, m) /\ ~HasSegment(p)) =>
                nout[p][m].OperationID =
                    StringsToLower(m) \o ParserToCamelCase(<<"r","o","o","t">>)

----------------------------------------------------------------------------
(* Tags, method token, idempotence (SpecNorm) *)

Processed == npc \in {"processed", "reprocessed"}

\* C12: after ProcessSpec an operation that declared no tags has the tag
\* list ["default"], and an operation that declared tags has exactly its
\* declared tags in their declared order.
C12_TagsDefaultedOrKept ==
    Processed =>
        \A p \in DOMAIN nspec : \A m \in DOMAIN nspec[p] :
            /\ nspec[p][m].Tags = <<>> =>
                   nout[p][m].Tags = << <<"d","e","f","a","u","l","t">> >>
            /\ nspec[p][m].Tags # <<>> => nout[p][m].Tags = nspec[p][m].Tags

C12_Witness ==
    /\ npc = "processed"
    /\ nspec = SpecWithTags
    /\ nout[PathUsers][MethodGet].Tags = <<TagUsers, TagAdmin>>
    /\ nout[PathUsers][MethodPost].Tags = << <<"d","e","f","a","u","l","t">> >>

C14_ProcessSpecIdempotent ==
    npc = "reprocessed" => nout = nfirst

C14_Witness ==
    /\ npc = "reprocessed"
    /\ nspec = SpecTwoPaths
    /\ nfirst # nspec
    /\ nout = nfirst

----------------------------------------------------------------------------
(* SpecUtils: the functions of package utils applied to one argument *)

SchemaTypes == {"string", "integer", "number", "boolean", "object", "array", "", "unknown"}
SchemaFormats == {"", "date", "date-time", "byte", "binary", "int32", "int64", "float",
                  "double", "email"}

RefUser == <<"#","/","c","o","m","p","o","n","e","n","t","s","/","s","c","h","e","m","a","s","/","U","s","e","r">>
RefTag == <<"#","/","c","o","m","p","o","n","e","n","t","s","/","s","c","h","e","m","a","s","/","T","a","g">>
RefProfile == <<"#","/","c","o","m","p","o","n","e","n","t","s","/","s","c","h","e","m","a","s","/","a","p","i","/","v","2","/","u","s","e","r","/","P","r","o","f","i","l","e">>
RefBare == <<"T","a","g">>
RefTrailingSlash == <<"#","/","a","/">>
SchemaRefs == {<<>>, RefUser, RefTag, RefProfile, RefBare, RefTrailingSlash}

\* the schemas an array's items are drawn from: a few leaves, and arrays of
\* them nested up to n levels
ItemLeaves ==
    {Schema("string", "", <<>>, NoItems), Schema("string", "byte", <<>>, NoItems),
     Schema("string", "date-time", <<>>, NoItems), Schema("integer", "int64", <<>>, NoItems),
     Schema("", "", RefTag, NoItems), Schema("", "", RefUser, NoItems),
     Schema("array", "", <<>>, NoItems), Schema("", "", <<>>, NoItems)}

RECURSIVE ItemSchemas(_)
ItemSchemas(n) ==
    IF n = 0 THEN ItemLeaves
    ELSE ItemSchemas(n - 1) \cup
         {Schema("array", "", <<>>, it) : it \in ItemSchemas(n - 1)}

SchemaInputs ==
    {Schema(type, format, ref, items) :
        type \in SchemaTypes, format \in SchemaFormats, ref \in SchemaRefs,
        items \in {NoItems} \cup ItemSchemas(MaxNesting - 1)}

GinPathAlphabet == {"/", "a", "{", "}"}
GinPathPosts == <<"/","u","s","e","r","s","/","{","u","s","e","r","I","d","}","/","p","o","s","t","s","/","{","p","o","s","t","I","d","}">>
GinPathQuery == <<"/","u","s","e","r","s","?","a","c","t","i","v","e","=","t","r","u","e">>
GinPathInputs ==
    StringsUpTo(GinPathAlphabet, MaxGinPathLen) \cup {GinPathPosts, GinPathQuery, PathUserId}

NameAlphabet == {"a", "B", "_", "-"}
NameSnake == <<"h","e","l","l","o","_","w","o","r","l","d">>
NameKebab == <<"h","e","l","l","o","-","w","o","r","l","d">>
NameDoubled == <<"h","e","l","l","o","_","_","w","o","r","l","d">>
NameLeading == <<"_","h","e","l","l","o","_","w","o","r","l","d">>
NameSeparators == <<"_","_","_">>
NameListUsers == <<"l","i","s","t","U","s","e","r","s">>
NameHelloWorld == <<"h","e","l","l","o","W","o","r","l","d">>
NameCamelCase == <<"c","a","m","e","l","C","a","s","e">>
NamePascalCase == <<"P","a","s","c","a","l","C","a","s","e">>
NameUpperHello == <<"H","E","L","L","O","_","W","O","R","L","D">>
NameUpperCase == <<"U","P","P","E","R","_","C","A","S","E">>
NameBracedId == <<"{","i","d","}">>
NameInputs ==
    StringsUpTo(NameAlphabet, MaxNameLen) \cup
    {NameSnake, NameKebab, NameDoubled, NameLeading, NameSeparators,
     NameListUsers, NameHelloWorld, NameCamelCase, NamePascalCase, NameUpperHello,
     NameUpperCase, NameBracedId}

NoSchema == Schema("", "", <<>>, NoItems)

\* the specification files LoadSpec is given
ExtUpperYaml == <<".","Y","A","M","L">>
ExtTxt == <<".","t","x","t">>
LoadExts == {ExtJson, ExtYaml, ExtYml, ExtUpperYaml, ExtTxt}
SectionKinds == {"absent", "scalar", "mapping"}
NoDoc == SpecDocument(FALSE, <<>>, FALSE, "mapping", FALSE, FALSE, FALSE, "absent", "absent")
DocInputs ==
    {d \in {SpecDocument(TRUE, ext, TRUE, "mapping", g, o, m, c, sc) :
                ext \in LoadExts, g \in BOOLEAN, o \in BOOLEAN, m \in BOOLEAN,
                c \in SectionKinds, sc \in SectionKinds} :
        d.Components # "mapping" => d.Schemas = "absent"}
    \cup {SpecDocument(r, ext, w, top, FALSE, FALSE, FALSE, "absent", "absent") :
              r \in BOOLEAN, ext \in LoadExts, w \in BOOLEAN, top \in {"mapping", "sequence"}}

\* the parameter lists of the operation whose signatures are rendered
ParamNames == {<<"i","d">>, <<"n">>}
ParamSchemas ==
    {StringSchema, Schema("integer", "", <<>>, NoItems), Schema("integer", "int64", <<>>, NoItems),
     Schema("string", "date-time", <<>>, NoItems)}
Params ==
    {[Name |-> n, In |-> in, Schema |-> sc] :
        n \in ParamNames, in \in {"path", "query"}, sc \in ParamSchemas}
ParamInputs == {<<>>} \cup {<<a>> : a \in Params} \cup {<<a, b>> : a \in Params, b \in Params}

\* the component schemas GenerateModels is given: objects with up to
\* MaxProperties properties, a component that is itself a date-time string,
\* and an array of dates
DateTimeSchema == Schema("string", "date-time", <<>>, NoItems)
NestedTimeSchema ==
    WithProperties(Schema("object", "", <<>>, NoItems), <<Property(<<"a","t">>, DateTimeSchema)>>)
PropertySchemas ==
    {StringSchema, DateTimeSchema, Schema("string", "date", <<>>, NoItems),
     Schema("array", "", <<>>, DateTimeSchema), Schema("", "", RefUser, NoItems),
     NestedTimeSchema}
PropertyNames == <<<<"a">>, <<"b">>>>
PropertyLists ==
    UNION {{[j \in 1..n |-> Property(PropertyNames[j], f[j])] : f \in [1..n -> PropertySchemas]} :
              n \in 0..MaxProperties}
ComponentSchemas ==
    {WithProperties(Schema("object", "", <<>>, NoItems), props) : props \in PropertyLists}
    \cup {DateTimeSchema, Schema("array", "", <<>>, Schema("string", "date", <<>>, NoItems))}
ComponentNames == <<"Event", "User">>
ComponentInputs ==
    UNION {{[i \in 1..n |-> Property(ComponentNames[i], f[i])] : f \in [1..n -> ComponentSchemas]} :
              n \in 1..MaxComponents}

UtilsInput(fn, schema, text, doc, params, schemas) ==
    [fn |-> fn, schema |-> schema, text |-> text, doc |-> doc, params |-> params,
     schemas |-> schemas]

\* the call to make: which function, and its argument
UtilsInputs ==
    {UtilsInput("GetGoType", sc, <<>>, NoDoc, <<>>, <<>>) : sc \in SchemaInputs}
    \cup {UtilsInput("ConvertPathToGin", NoSchema, t, NoDoc, <<>>, <<>>) : t \in GinPathInputs}
    \cup {UtilsInput("ToCamelCase", NoSchema, t, NoDoc, <<>>, <<>>) : t \in NameInputs}
    \cup {UtilsInput("ParserToCamelCase", NoSchema, t, NoDoc, <<>>, <<>>) : t \in NameInputs}
    \cup {UtilsInput("LoadSpec", NoSchema, <<>>, d, <<>>, <<>>) : d \in DocInputs}
    \cup {UtilsInput("Signatures", NoSchema, <<>>, NoDoc, ps, <<>>) : ps \in ParamInputs}
    \cup {UtilsInput("GenerateModels", NoSchema, <<>>, NoDoc, <<>>, cs) : cs \in ComponentInputs}

InitUtils ==
    /\ uin \in UtilsInputs
    /\ uout = <<>>
    /\ upc = "input"
    /\ nspec = <<>>
    /\ nout = <<>>
    /\ nfirst = <<>>
    /\ npc = "unused"
    /\ pc = "idle"
    /\ fs = [f \in Files |-> Absent]
    /\ dirs = {}
    /\ specFile = "one.yaml"
    /\ pkgFlag = ""
    /\ decoder = "none"
    /\ spec = NoSpec
    /\ cfg = NoCfg
    /\ err = "none"
    /\ fs0 = fs
    /\ trace = <<>>
    /\ written = <<>>
    /\ prev = NoRun
    /\ runs = 0
    /\ edits = 0

\* utils.GetGoType(schema)
CallGetGoType ==
    /\ upc = "input"
    /\ uin.fn = "GetGoType"
    /\ uout' = GetGoType(uin.schema)
    /\ upc' = "returned"
    /\ UNCHANGED uin
    /\ UNCHANGED <<nvars, gvars>>

\* utils.ConvertPathToGin(path)
CallConvertPathToGin ==
    /\ upc = "input"
    /\ uin.fn = "ConvertPathToGin"
    /\ uout' = ConvertPathToGin(uin.text)
    /\ upc' = "returned"
    /\ UNCHANGED uin
    /\ UNCHANGED <<nvars, gvars>>

\* utils.ToCamelCase(s)
CallToCamelCase ==
    /\ upc = "input"
    /\ uin.fn = "ToCamelCase"
    /\ uout' = UtilsToCamelCase(uin.text)
    /\ upc' = "returned"
    /\ UNCHANGED uin
    /\ UNCHANGED <<nvars, gvars>>

\* parser.ToCamelCase(s)
CallParserToCamelCase ==
    /\ upc = "input"
    /\ uin.fn = "ParserToCamelCase"
    /\ uout' = ParserToCamelCase(uin.text)
    /\ upc' = "returned"
    /\ UNCHANGED uin
    /\ UNCHANGED <<nvars, gvars>>

\* Generator.LoadSpec on one specification file
CallLoadSpec ==
    /\ upc = "input"
    /\ uin.fn = "LoadSpec"
    /\ uout' = LoadSpec(uin.doc)
    /\ upc' = "returned"
    /\ UNCHANGED uin
    /\ UNCHANGED <<nvars, gvars>>

\* the path-parameter list of one operation as GenerateAPIFile,
\* GenerateImplementationTemplate and GenerateServerFile each render it
Signatures(path, method, op) ==
    [Contract |-> APIMethod(path, method, op).Parameters,
     Stub |-> StubParams(op),
     Call |-> RouterCall(Route(path, method, op))]

CallSignatures ==
    /\ upc = "input"
    /\ uin.fn = "Signatures"
    /\ uout' = Signatures(PathUserId, MethodGet,
                          Operation(<<"g","e","t","_","u","s","e","r">>, "", NoTags, uin.params))
    /\ upc' = "returned"
    /\ UNCHANGED uin
    /\ UNCHANGED <<nvars, gvars>>

\* GenerateModels on the component schemas of one specification
CallGenerateModels ==
    /\ upc = "input"
    /\ uin.fn = "GenerateModels"
    /\ uout' = ModelsFile(uin.schemas)
    /\ upc' = "returned"
    /\ UNCHANGED uin
    /\ UNCHANGED <<nvars, gvars>>

NextUtils ==
    \/ CallGetGoType
    \/ CallConvertPathToGin
    \/ CallToCamelCase
    \/ CallParserToCamelCase
    \/ CallLoadSpec
    \/ CallSignatures
    \/ CallGenerateModels

SpecUtils == InitUtils /\ [][NextUtils]_vars

----------------------------------------------------------------------------
(* Type resolution (SpecUtils) *)

Returned(fn) == upc = "returned" /\ uin.fn = fn

\* C16: for a schema with an empty reference GetGoType returns a type (it
\* never fails): string gives string, except format date or date-time gives
\* time.Time and byte or binary gives []byte; integer gives int, except
\* int32 and int64 give themselves; number gives float64, except float gives
\* float32; boolean gives bool; object gives map[string]interface{}; array
\* without items gives []interface{}; any other type gives interface{}.
C16_TypeMatrix ==
    (Returned("GetGoType") /\ uin.schema.Ref = <<>>) =>
        LET type == uin.schema.Type
            format == uin.schema.Format
        IN  /\ uout # <<>>
            /\ type = "string" =>
                  uout = IF format \in {"date", "date-time"} THEN <<"time.Time">>
                         ELSE IF format \in {"byte", "binary"} THEN <<"[]byte">>
                         ELSE <<"string">>
            /\ type = "integer" =>
                  uout = IF format = "int32" THEN <<"int32">>
                         ELSE IF format = "int64" THEN <<"int64">>
                         ELSE <<"int">>
            /\ type = "number" =>
                  uout = IF format = "float" THEN <<"float32">> ELSE <<"float64">>
            /\ type = "boolean" => uout = <<"bool">>
            /\ type = "object" => uout = <<"map[string]interface{}">>
            /\ (type = "array" /\ uin.schema.Items = NoItems) => uout = <<"[]interface{}">>
            /\ type \notin {"string", "integer", "number", "boolean", "object", "array"} =>
                  uout = <<"interface{}">>

C16_Witness ==
    /\ Returned("GetGoType")
    /\ uin.schema = Schema("number", "float", <<>>, NoItems)
    /\ uout = <<"float32">>

\* the text after the last '/' of a reference (all of it when it has no '/')
TextAfterLastSlash(ref) ==
    LET slashes == {i \in 1..Len(ref) : ref[i] = "/"}
        last == IF slashes = {} THEN 0
                ELSE CHOOSE i \in slashes : \A j \in slashes : j <= i
    IN  SubSeq(ref, last + 1, Len(ref))

\* C17: for a schema with a non-empty reference GetGoType returns the text
\* after the last '/' of the reference, whatever type, format and items the
\* schema has; "#/components/schemas/api/v2/user/Profile" gives "Profile".
C17_ReferenceLastSegment ==
    (Returned("GetGoType") /\ uin.schema.Ref # <<>>) =>
        /\ uout = TextAfterLastSlash(uin.schema.Ref)
        /\ uin.schema.Ref = RefProfile => uout = <<"P","r","o","f","i","l","e">>

C17_Witness ==
    /\ Returned("GetGoType")
    /\ uin.schema.Ref = RefProfile
    /\ uin.schema.Type = "array"
    /\ uin.schema.Format = "int32"
    /\ uin.schema.Items # NoItems
    /\ uout = <<"P","r","o","f","i","l","e">>

\* an array schema that is resolved through its items
IsArrayOfItems(schema) ==
    schema.Ref = <<>> /\ schema.Type = "array" /\ schema.Items # NoItems

\* the number of array levels above the innermost items schema
RECURSIVE ArrayDepth(_)
ArrayDepth(schema) ==
    IF IsArrayOfItems(schema) THEN 1 + ArrayDepth(schema.Items) ELSE 0

RECURSIVE Innermost(_)
Innermost(schema) ==
    IF IsArrayOfItems(schema) THEN Innermost(schema.Items) ELSE schema

ArrayOfItems(items) == Schema("array", "", <<>>, items)

\* C18: an array schema nested n levels deep whose innermost items schema
\* resolves to T gives T prefixed by exactly n "[]" wrappers: array of array
\* of reference Tag gives [][]Tag, array of string with format byte gives
\* [][]byte.
C18_NestedArrayWrappers ==
    (Returned("GetGoType") /\ IsArrayOfItems(uin.schema)) =>
        /\ uout = [i \in 1..ArrayDepth(uin.schema) |-> "[]"]
                      \o GetGoType(Innermost(uin.schema))
        /\ uin.schema = ArrayOfItems(ArrayOfItems(Schema("", "", RefTag, NoItems))) =>
              uout = <<"[]", "[]", "T", "a", "g">>
        /\ uin.schema = ArrayOfItems(Schema("string", "byte", <<>>, NoItems)) =>
              uout = <<"[]", "[]byte">>

C18_Witness ==
    /\ Returned("GetGoType")
    /\ uin.schema = ArrayOfItems(ArrayOfItems(Schema("", "", RefTag, NoItems)))
    /\ ArrayDepth(uin.schema) = 2
    /\ uout = <<"[]", "[]", "T", "a", "g">>

----------------------------------------------------------------------------
(* Path conversion and identifier normalization (SpecUtils) *)

\* path[i..j] is a placeholder {name}: braces around a non-empty name that
\* has no brace and no '/'
IsPlaceholder(path, i, j) ==
    /\ i + 1 < j
    /\ path[i] = "{" /\ path[j] = "}"
    /\ \A k \in (i + 1)..(j - 1) : path[k] \notin {"{", "}", "/"}

HasPlaceholder(path) ==
    \E i \in 1..Len(path) : \E j \in 1..Len(path) : IsPlaceholder(path, i, j)

GinPosts == <<"/","u","s","e","r","s","/",":","u","s","e","r","I","d","/","p","o","s","t","s","/",":","p","o","s","t","I","d">>

\* C19 (as claimed): ConvertPathToGin turns "/users/{userId}/posts/{postId}"
\* into "/users/:userId/posts/:postId" and returns every path that contains
\* no {name} placeholder unchanged.
C19_OnlyPlaceholdersRewritten ==
    Returned("ConvertPathToGin") =>
        /\ uin.text = GinPathPosts => uout = GinPosts
        /\ ~HasPlaceholder(uin.text) => uout = uin.text

\* C19 (amended): ConvertPathToGin replaces every '{' by ':' and removes
\* every '}', whether or not they form a placeholder, and changes nothing
\* else; a path with neither brace is returned unchanged, and
\* "/users/{userId}/posts/{postId}" gives "/users/:userId/posts/:postId".
C19_BracesRewritten ==
    Returned("ConvertPathToGin") =>
        LET kept == SelectSeq(uin.text, LAMBDA c : c # "}")
        IN  /\ Len(uout) = Len(kept)
            /\ \A i \in 1..Len(kept) :
                  uout[i] = IF kept[i] = "{" THEN ":" ELSE kept[i]
            /\ (\A i \in 1..Len(uin.text) : uin.text[i] \notin {"{", "}"}) =>
                  uout = uin.text
            /\ uin.text = GinPathPosts => uout = GinPosts
            /\ uin.text = GinPathQuery => uout = GinPathQuery

C19_Witness ==
    /\ Returned("ConvertPathToGin")
    /\ uin.text = GinPathPosts
    /\ HasPlaceholder(uin.text)
    /\ uout = GinPosts

\* the non-empty segments of a name, '-' and '_' both being separators
NameSegments(s) ==
    SelectSeq(StringsSplit(ReplaceAllCh(s, "-", "_"), "_"), LAMBDA seg : seg # <<>>)

HelloWorld == <<"H","e","l","l","o","W","o","r","l","d">>

\* C20: ToCamelCase treats '-' like '_', drops the empty segments of leading,
\* trailing and doubled separators and joins the title-cased remaining
\* segments with nothing between them: "hello_world", "hello-world",
\* "hello__world" and "_hello_world" give "HelloWorld"; empty input and
\* input made only of separators give the empty string.
C20_CamelCaseSegments ==
    Returned("ToCamelCase") =>
        LET segs == NameSegments(uin.text)
        IN  /\ uout = StringsJoin([i \in 1..Len(segs) |-> CasesTitle(segs[i])])
            /\ \A i \in 1..Len(uout) : uout[i] \notin {"_", "-"}
            /\ uin.text \in {NameSnake, NameKebab, NameDoubled, NameLeading} =>
                  uout = HelloWorld
            /\ (\A i \in 1..Len(uin.text) : uin.text[i] \in {"_", "-"}) => uout = <<>>

C20_Witness ==
    /\ Returned("ToCamelCase")
    /\ uin.text = NameLeading
    /\ uout = HelloWorld

----------------------------------------------------------------------------
(* Casing and safety of normalized identifiers (SpecUtils) *)

\* a segment with its first letter upper-cased and nothing else changed
UpperFirst(seg) == [i \in 1..Len(seg) |-> IF i = 1 THEN ToUpperCh(seg[i]) ELSE seg[i]]

\* a segment with its first letter upper-cased and every other letter lower-cased
UpperFirstLowerRest(seg) ==
    [i \in 1..Len(seg) |-> IF i = 1 THEN ToUpperCh(seg[i]) ELSE ToLowerCh(seg[i])]

\* C21 (as claimed): the identifier normalization used for handler names
\* upper-cases the first letter of each segment and leaves every other
\* character as it is: listUsers gives ListUsers.
C21_InteriorCasingKept ==
    Returned("ToCamelCase") =>
        LET segs == NameSegments(uin.text)
        IN  /\ uout = StringsJoin([i \in 1..Len(segs) |-> UpperFirst(segs[i])])
            /\ uin.text = NameListUsers => uout = <<"L","i","s","t","U","s","e","r","s">>

\* C22 (as claimed): ToCamelCase of package utils and ToCamelCase of package
\* parser both lower-case every character of a segment after its first:
\* helloWorld gives Helloworld, camelCase gives Camelcase, PascalCase gives
\* Pascalcase, HELLO_WORLD gives HelloWorld, UPPER_CASE gives UpperCase.
C22_RestLowerCased ==
    (Returned("ToCamelCase") \/ Returned("ParserToCamelCase")) =>
        LET segs == NameSegments(uin.text)
        IN  /\ (\A i \in 1..Len(uin.text) : uin.text[i] \notin {"{", "}"}) =>
                  uout = StringsJoin([i \in 1..Len(segs) |-> UpperFirstLowerRest(segs[i])])
            /\ uin.text = NameHelloWorld => uout = <<"H","e","l","l","o","w","o","r","l","d">>
            /\ uin.text = NameCamelCase => uout = <<"C","a","m","e","l","c","a","s","e">>
            /\ uin.text = NamePascalCase => uout = <<"P","a","s","c","a","l","c","a","s","e">>
            /\ uin.text = NameUpperHello => uout = <<"H","e","l","l","o","W","o","r","l","d">>
            /\ uin.text = NameUpperCase => uout = <<"U","p","p","e","r","C","a","s","e">>

\* C23 (as claimed): the result of identifier normalization, in either
\* variant and also for a path segment such as "{id}", consists of letters
\* and digits only.
C23_IdentifierSafe ==
    (Returned("ToCamelCase") \/ Returned("ParserToCamelCase")) =>
        \A i \in 1..Len(uout) : IsLower(uout[i]) \/ IsUpper(uout[i]) \/ uout[i] \in Digits

----------------------------------------------------------------------------
(* Frame of the normalizer and handler names (SpecNorm) *)

\* the (path, method) pairs of a Paths map
Pairs(paths) == UNION {{<<p, m>> : m \in DOMAIN paths[p]} : p \in DOMAIN paths}

\* C24: ProcessSpec adds and removes no path and no operation, and an
\* operation declared with a non-empty operationId has the same operationId
\* afterwards.
C24_PairsAndDeclaredIdsKept ==
    Processed =>
        /\ Pairs(nout) = Pairs(nspec)
        /\ \A pm \in Pairs(nspec) :
              nspec[pm[1]][pm[2]].OperationID # <<>> =>
                  nout[pm[1]][pm[2]].OperationID = nspec[pm[1]][pm[2]].OperationID

C24_Witness ==
    /\ npc = "processed"
    /\ nspec = SpecWithTags
    /\ Cardinality(Pairs(nout)) = 2
    /\ nout[PathUsers][MethodGet].OperationID = <<"l","i","s","t","_","u","s","e","r","s">>
    /\ nout[PathUsers][MethodPost].OperationID = <<"c","r","e","a","t","e","_","u","s","e","r">>

\* the handler method name the generators derive for a normalized operation
HandlerNameOf(paths, pm) == UtilsToCamelCase(paths[pm[1]][pm[2]].OperationID)

\* C28 (as claimed): after normalization distinct (path, method) pairs have
\* distinct handler method names, also when their identifiers were
\* synthesized for operations on different paths.
C28_HandlerNamesDistinct ==
    Processed =>
        \A pm \in Pairs(nout) : \A qn \in Pairs(nout) :
            pm # qn => HandlerNameOf(nout, pm) # HandlerNameOf(nout, qn)

----------------------------------------------------------------------------
(* Loading by the generator, signatures, models and type totality (SpecUtils) *)

ValidationErrors ==
    {"missing 'models' section", "missing 'components' section",
     "missing 'schemas' in components", "neither gopenapi nor openapi version field found"}

\* LoadSpec has got past reading and deserializing: a readable, well-formed
\* mapping in a file whose extension is .json, .yaml or .yml as written
Deserialized(doc) ==
    /\ doc.Readable
    /\ doc.WellFormed
    /\ doc.Top = "mapping"
    /\ doc.Ext \in {ExtJson, ExtYaml, ExtYml}

HasSchemasMapping(doc) == doc.Components = "mapping" /\ doc.Schemas = "mapping"

\* C26 (as claimed): for a well-formed document with a supported extension
\* LoadSpec returns a validation error exactly when the document has a
\* gopenapi field and no models section, or an openapi field and no
\* components.schemas mapping, or neither version field; otherwise it
\* succeeds.
C26_ValidationExactlyWhenSectionAbsent ==
    (Returned("LoadSpec") /\ Deserialized(uin.doc)) =>
        /\ uout \in ValidationErrors <=>
              \/ uin.doc.Gopenapi /\ ~uin.doc.Models
              \/ uin.doc.Openapi /\ ~HasSchemasMapping(uin.doc)
              \/ ~uin.doc.Gopenapi /\ ~uin.doc.Openapi
        /\ uout \notin ValidationErrors => uout = "nil"

\* C26 (amended): the openapi sections are required only of a document
\* without a gopenapi field. For a well-formed mapping with a supported
\* extension LoadSpec returns a validation error exactly when the document
\* has a gopenapi field and no models section, or no gopenapi field, an
\* openapi field and no components.schemas mapping, or neither version
\* field; otherwise it succeeds.
C26_ValidationByVersionField ==
    (Returned("LoadSpec") /\ Deserialized(uin.doc)) =>
        /\ uout \in ValidationErrors <=>
              \/ uin.doc.Gopenapi /\ ~uin.doc.Models
              \/ ~uin.doc.Gopenapi /\ uin.doc.Openapi /\ ~HasSchemasMapping(uin.doc)
              \/ ~uin.doc.Gopenapi /\ ~uin.doc.Openapi
        /\ uout \notin ValidationErrors => uout = "nil"

C26_Witness ==
    /\ Returned("LoadSpec")
    /\ uin.doc = SpecDocument(TRUE, ExtYaml, TRUE, "mapping", TRUE, TRUE, TRUE, "absent", "absent")
    /\ uout = "nil"

\* C27 (as claimed): the path-parameter list of an operation's handler
\* method (names, order and Go types) is the same in the handler contract,
\* in the implementation stub and in the call the router wiring emits.
C27_SignaturesAgree ==
    Returned("Signatures") =>
        /\ uout.Contract = uout.Stub
        /\ uout.Stub = uout.Call

\* C29 (as claimed): GenerateModels emits the "time" import if and only if
\* at least one struct field it renders has a type expression containing
\* time.Time.
RendersTimeField(file) ==
    \E i \in DOMAIN file.Structs : \E j \in DOMAIN file.Structs[i].Fields :
        \E k \in DOMAIN file.Structs[i].Fields[j][2] :
            file.Structs[i].Fields[j][2][k] = "time.Time"

C29_TimeImportIffTimeField ==
    Returned("GenerateModels") => ("time" \in uout.Imports <=> RendersTimeField(uout))

\* C30 (as claimed): GetGoType returns a non-empty type expression for every
\* schema, whatever its reference, type, format and items are.
C30_TypeExpressionNonEmpty ==
    Returned("GetGoType") => uout # <<>>

====
